---- MODULE Spec2Model ----
(***************************************************************************)
(* A model of paygate's transfer repository (pkg/transfers/repository.go), *)
(* of the first-party fund-flow strategy (pkg/transfers/fundflow) and of   *)
(* the repository's callers: HTTP handlers, aggregator, return reconciler, *)
(* with the server process (cmd/server/main.go) and the file names of the  *)
(* upload package.                                                         *)
(*                                                                         *)
(* The SQL tables are modelled as relations: `transfers` is a function     *)
(* from the primary key transfer_id to the row's columns, and              *)
(* `transfer_trace_numbers` is a bag of (transfer_id, trace_number) rows.  *)
(***************************************************************************)
EXTENDS Integers, Sequences, FiniteSets, Bags, TLC

VARIABLES
    transfers,               \* table transfers: transfer_id -> row
    transfer_trace_numbers,  \* table transfer_trace_numbers: bag of <<transfer_id, trace_number>>
    tx,                      \* the open transaction of a deleteUserTransfer call
    ret,                     \* operation and error of the call that returned last
    clock,                   \* time.Now(), in hours
    fp,                      \* FirstParty.cfg: the config.ODFI of the strategy
    holidays,                \* the days the banking calendar of base.Time holds as holidays
    timeService,             \* FirstParty.timeService: the instant Now() returns
    out,                     \* arguments and results of the fund-flow call that returned last
    mergeBuffer,             \* the merge buffer: the transfer IDs awaiting the next cutoff
    uploads,                 \* the transfer IDs whose file the upload agent has uploaded
    agg,                     \* the aggregator's flush in flight
    rec,                     \* the return reconciler's entry in hand
    server,                  \* the server process: main's position, deferred calls, what runs
    achFile                  \* the upload package: a file's name being rendered and parsed

repoVars == <<transfers, transfer_trace_numbers, tx, ret, clock>>

flowVars == <<fp, holidays, timeService, out>>

pipeVars == <<mergeBuffer, uploads, agg, rec>>

(***************************************************************************)
(* Values                                                                  *)
(***************************************************************************)
\* client.TransferStatus
CANCELED == "canceled"
FAILED == "failed"
PENDING == "pending"
PROCESSED == "processed"
REVIEWABLE == "reviewable"
RETURNED == "returned"

TransferStatus == {CANCELED, FAILED, PENDING, PROCESSED, REVIEWABLE, RETURNED}

\* a null column: return_code is a string column, deleted_at a datetime
NullCode == "null"
NullTime == -1

\* errors the repository returns
Nil == "nil"
ErrNotPending == "is not in PENDING status"
ErrDuplicateKey == "Error 1062: Duplicate entry"

\* the inputs the calls are drawn from
TransferIDs == {"t1", "t2"}
Organizations == {"o1", "o2"}
ReturnCodes == {"R01", "R02"}
TraceNumbers == {"T1"}
Amounts == {100}

\* longest list of trace numbers handed to saveTraceNumbers
MaxTraceList == 2

TraceLists == UNION {[1..n -> TraceNumbers] : n \in 0..MaxTraceList}

(***************************************************************************)
(* Reading the tables                                                      *)
(***************************************************************************)
Exists(transferID) == transferID \in DOMAIN transfers

\* where transfer_id = ? and deleted_at is null
Live(transferID) ==
    /\ Exists(transferID)
    /\ transfers[transferID].deleted_at = NullTime

\* mutant: the condition without "organization = ?"
LiveFor_AnyOrganization(transferID, orgID) == Live(transferID)

\* where transfer_id = ? and organization = ? and deleted_at is null
LiveFor(transferID, orgID) ==
    /\ Live(transferID)
    /\ transfers[transferID].organization = orgID

\* case folding over the strings of the model: of the values compared with
\* strings.EqualFold only the customer status occurs in two spellings
Fold(str) == IF str = "VERIFIED" THEN "verified" ELSE str

\* strings.EqualFold
EqualFold(a, b) == Fold(a) = Fold(b)

\* select trace_number from transfer_trace_numbers where transfer_id = ?
getTraceNumbers(transferID) ==
    {row[2] : row \in {r \in BagToSet(transfer_trace_numbers) : r[1] = transferID}}

(***************************************************************************)
(* The repository's operations                                             *)
(***************************************************************************)
NoTx == [pc |-> "none", orgID |-> "", transferID |-> ""]

\* mutant: the update without its "deleted_at is null" condition
UpdateStatusRows_Deleted(transferID, status) ==
    IF Exists(transferID)
    THEN [transfers EXCEPT ![transferID].status = status]
    ELSE transfers

\* update transfers set status = ? where transfer_id = ? and deleted_at is null
UpdateStatusRows(transferID, status) ==
    IF Live(transferID)
    THEN [transfers EXCEPT ![transferID].status = status]
    ELSE transfers

UpdateTransferStatus(transferID, status) ==
    /\ transfers' = UpdateStatusRows(transferID, status)
    /\ ret' = [op |-> "UpdateTransferStatus", err |-> Nil]
    /\ UNCHANGED <<transfer_trace_numbers, tx, clock, flowVars, server, achFile>>

\* insert into transfers (...) values (...): transfer_id is the primary key
WriteUserTransfer(orgID, transferID, amount, status) ==
    /\ IF Exists(transferID)
       THEN /\ ret' = [op |-> "WriteUserTransfer", err |-> ErrDuplicateKey]
            /\ UNCHANGED transfers
       ELSE /\ transfers' = [id \in DOMAIN transfers \cup {transferID} |->
                                IF id = transferID
                                THEN [organization |-> orgID,
                                      amount_value |-> amount,
                                      status |-> status,
                                      return_code |-> NullCode,
                                      processed_at |-> NullTime,
                                      created_at |-> clock,
                                      deleted_at |-> NullTime]
                                ELSE transfers[id]]
            /\ ret' = [op |-> "WriteUserTransfer", err |-> Nil]
    /\ UNCHANGED <<transfer_trace_numbers, tx, clock, flowVars, server, achFile>>

\* mutant: sql.ErrNoRows of the select returned to the caller
deleteUserTransferSelect_ErrNoRows(orgID, transferID) ==
    /\ tx.pc = "none"
    /\ IF ~LiveFor(transferID, orgID)
       THEN /\ ret' = [op |-> "deleteUserTransfer", err |-> "sql: no rows in result set"]
            /\ tx' = NoTx
       ELSE IF ~EqualFold(transfers[transferID].status, PENDING)
       THEN /\ ret' = [op |-> "deleteUserTransfer", err |-> ErrNotPending]
            /\ tx' = NoTx
       ELSE /\ tx' = [pc |-> "selected", orgID |-> orgID, transferID |-> transferID]
            /\ UNCHANGED ret
    /\ UNCHANGED <<transfers, transfer_trace_numbers, clock, flowVars, server, achFile>>

\* deleteUserTransfer, up to and including the check of the selected status:
\* begin, select status ... limit 1, then either return or go on to the update
deleteUserTransferSelect(orgID, transferID) ==
    /\ tx.pc = "none"
    /\ IF ~LiveFor(transferID, orgID)
       THEN \* sql.ErrNoRows: rollback, return nil
            /\ ret' = [op |-> "deleteUserTransfer", err |-> Nil]
            /\ tx' = NoTx
       ELSE IF ~EqualFold(transfers[transferID].status, PENDING)
       THEN /\ ret' = [op |-> "deleteUserTransfer", err |-> ErrNotPending]
            /\ tx' = NoTx
       ELSE /\ tx' = [pc |-> "selected", orgID |-> orgID, transferID |-> transferID]
            /\ UNCHANGED ret
    /\ UNCHANGED <<transfers, transfer_trace_numbers, clock, flowVars, server, achFile>>

\* mutant: the update without its "and status = ?" condition
DeleteRows_AnyStatus(orgID, transferID) ==
    IF LiveFor(transferID, orgID)
    THEN [transfers EXCEPT ![transferID].deleted_at = clock]
    ELSE transfers

\* update transfers set deleted_at = ? where transfer_id = ? and organization = ?
\* and status = ? and deleted_at is null
DeleteRows(orgID, transferID) ==
    IF LiveFor(transferID, orgID) /\ transfers[transferID].status = PENDING
    THEN [transfers EXCEPT ![transferID].deleted_at = clock]
    ELSE transfers

\* deleteUserTransfer from the update to the commit
deleteUserTransferExec ==
    /\ tx.pc = "selected"
    /\ transfers' = DeleteRows(tx.orgID, tx.transferID)
    /\ ret' = [op |-> "deleteUserTransfer", err |-> Nil]
    /\ tx' = NoTx
    /\ UNCHANGED <<transfer_trace_numbers, clock, flowVars, server, achFile>>

\* mutant: the update without its "and return_code is null" condition
SaveReturnCodeRows_Overwrite(transferID, returnCode) ==
    IF Live(transferID)
    THEN [transfers EXCEPT ![transferID].return_code = returnCode]
    ELSE transfers

\* mutant: the update setting the status with the return code
SaveReturnCodeRows_Returned(transferID, returnCode) ==
    IF Live(transferID) /\ transfers[transferID].return_code = NullCode
    THEN [transfers EXCEPT ![transferID].return_code = returnCode,
                           ![transferID].status = RETURNED]
    ELSE transfers

\* update transfers set return_code = ? where transfer_id = ? and return_code is null
\* and deleted_at is null
SaveReturnCodeRows(transferID, returnCode) ==
    IF Live(transferID) /\ transfers[transferID].return_code = NullCode
    THEN [transfers EXCEPT ![transferID].return_code = returnCode]
    ELSE transfers

SaveReturnCode(transferID, returnCode) ==
    /\ transfers' = SaveReturnCodeRows(transferID, returnCode)
    /\ ret' = [op |-> "SaveReturnCode", err |-> Nil]
    /\ UNCHANGED <<transfer_trace_numbers, tx, clock, flowVars, server, achFile>>

\* the loop of saveTraceNumbers from index i on: the rows after the inserts, or
\* "failed" at the first insert the unique index (transfer_id, trace_number) refuses
RECURSIVE InsertTraceNumbers(_, _, _, _)
InsertTraceNumbers(table, transferID, traceNumbers, i) ==
    IF i > Len(traceNumbers)
    THEN [ok |-> TRUE, rows |-> table]
    ELSE IF BagIn(<<transferID, traceNumbers[i]>>, table)
    THEN [ok |-> FALSE, rows |-> table]
    ELSE InsertTraceNumbers(table (+) SetToBag({<<transferID, traceNumbers[i]>>}),
                            transferID, traceNumbers, i + 1)

\* mutant: the inserts without the unique index on (transfer_id, trace_number)
SavedTraceRows_NoIndex(transferID, traceNumbers) ==
    transfer_trace_numbers (+)
        [r \in {<<transferID, traceNumbers[i]>> : i \in DOMAIN traceNumbers} |->
            Cardinality({i \in DOMAIN traceNumbers : traceNumbers[i] = r[2]})]

\* mutant: the transaction rolled back where it is committed
SavedTraceRows_RolledBack(transferID, traceNumbers) == transfer_trace_numbers

\* mutant: the inserts made before a failed insert kept, without the rollback
SavedTraceRows_NoRollback(transferID, traceNumbers) ==
    InsertTraceNumbers(transfer_trace_numbers, transferID, traceNumbers, 1).rows

\* what saveTraceNumbers leaves in the table: the inserts on commit, nothing on rollback
SavedTraceRows(transferID, traceNumbers) ==
    LET r == InsertTraceNumbers(transfer_trace_numbers, transferID, traceNumbers, 1)
    IN  IF r.ok THEN r.rows ELSE transfer_trace_numbers

SaveTraceNumbersErr(transferID, traceNumbers) ==
    IF InsertTraceNumbers(transfer_trace_numbers, transferID, traceNumbers, 1).ok
    THEN Nil
    ELSE ErrDuplicateKey

saveTraceNumbers(transferID, traceNumbers) ==
    /\ transfer_trace_numbers' = SavedTraceRows(transferID, traceNumbers)
    /\ ret' = [op |-> "saveTraceNumbers", err |-> SaveTraceNumbersErr(transferID, traceNumbers)]
    /\ UNCHANGED <<transfers, tx, clock, flowVars, server, achFile>>

(***************************************************************************)
(* Time: time.Time and base.Time                                           *)
(*                                                                         *)
(* A time.Time is an instant (minutes since 00:00 UTC of day 0) with a     *)
(* location, a fixed offset from UTC in minutes: the calendar fields       *)
(* (date, weekday, clock) are read in the location.                        *)
(***************************************************************************)
MinutesPerDay == 24 * 60

\* time.Time.In
In(t, loc) == [t EXCEPT !.loc = loc]

\* time.Time.UTC
UTC(t) == [t EXCEPT !.loc = 0]

\* base.NewTime: "The time zone will be changed to UTC"; the test of
\* calculateEffectiveEntryDate prints its results as "+0000 UTC"
NewTime(t) == UTC(t)

WallMinutes(t) == t.unix + t.loc

\* the calendar day and the minute of the day of t in its location
Day(t) == WallMinutes(t) \div MinutesPerDay

MinuteOfDay(t) == WallMinutes(t) % MinutesPerDay

\* time.Weekday of t, Sunday = 0: day 0 is a Wednesday
Weekday(t) == (3 + Day(t)) % 7

\* time.Time.AddDate(0, 0, days)
AddDate(t, days) == [t EXCEPT !.unix = @ + days * MinutesPerDay]

\* one decimal digit, and a number below 100 in two digits, as ASCII codes
Digit(n) == 48 + n

TwoDigits(n) == <<Digit(n \div 10), Digit(n % 10)>>

\* time.Time.Format("15:04"): the string as its sequence of ASCII codes
Format1504(t) ==
    TwoDigits(MinuteOfDay(t) \div 60) \o <<58>> \o TwoDigits(MinuteOfDay(t) % 60)

\* Go's < on strings: bytewise lexicographic
RECURSIVE StringLess(_, _)
StringLess(a, b) ==
    IF b = <<>> THEN FALSE
    ELSE IF a = <<>> THEN TRUE
    ELSE IF Head(a) # Head(b) THEN Head(a) < Head(b)
    ELSE StringLess(Tail(a), Tail(b))

\* sort.Strings, as an insertion sort
RECURSIVE InsertSorted(_, _)
InsertSorted(str, sorted) ==
    IF sorted = <<>> THEN <<str>>
    ELSE IF StringLess(str, Head(sorted)) THEN <<str>> \o sorted
    ELSE <<Head(sorted)>> \o InsertSorted(str, Tail(sorted))

RECURSIVE SortStrings(_)
SortStrings(strs) ==
    IF strs = <<>> THEN <<>>
    ELSE InsertSorted(Head(strs), SortStrings(Tail(strs)))

\* mutant: a banking day whatever the holidays
IsBankingDay_NoHolidays(t) == Weekday(t) \notin {0, 6}

\* base.Time.IsBankingDay: not a weekend day, not a holiday
IsBankingDay(t) ==
    /\ Weekday(t) \notin {0, 6}
    /\ Day(t) \notin holidays

\* base.Time.AddBankingDay: the d-th banking day after t, at t's time of day
RECURSIVE AddBankingDay(_, _)
AddBankingDay(t, d) ==
    IF d < 1 THEN t
    ELSE IF IsBankingDay(AddDate(t, 1))
    THEN AddBankingDay(AddDate(t, 1), d - 1)
    ELSE AddBankingDay(AddDate(t, 1), d)

(***************************************************************************)
(* The first-party strategy                                                *)
(***************************************************************************)
\* mutant: the comparison with the last window as > instead of >=
afterCutoffWindows_Strict(cfg, when) ==
    IF Len(cfg.Windows) = 0
    THEN FALSE
    ELSE LET windows == SortStrings(cfg.Windows)
             now == Format1504(when)
         IN  StringLess(windows[Len(windows)], now)

afterCutoffWindows(cfg, when) ==
    IF Len(cfg.Windows) = 0
    THEN FALSE
    ELSE LET windows == SortStrings(cfg.Windows)
             now == Format1504(when)
         IN  ~StringLess(now, windows[Len(windows)])

\* the value of `when`: ss.Now() in the cutoff location, wrapped by base.NewTime
When(cfg, now) == NewTime(In(now, cfg.Cutoffs.Timezone))

calculateEffectiveEntryDate(cfg, now, sameDay) ==
    LET when == When(cfg, now)
        afterCutoffs == afterCutoffWindows(cfg.Cutoffs, when)
    IN  IF afterCutoffs
        THEN IF sameDay THEN AddBankingDay(when, 1) ELSE AddBankingDay(when, 2)
        ELSE IF sameDay THEN when ELSE AddBankingDay(when, 1)

\* customers.CustomerStatus
CUSTOMERSTATUS_VERIFIED == "verified"

\* a nil *client.Transfer
NilTransfer == [nil |-> TRUE, Amount |-> 0, SameDay |-> FALSE]

\* what Originate returns; files is the length of the returned slice
EndpointRejected == "rejecting transfer between two accounts within"
ThirdPartyRejected == "rejecting third-party transfer between FI's we don't represent"
DebitNotAllowed == "does not support debit"
BuildFailed == "failed to create file"
NilDereference == "panic: nil pointer dereference"

NoOpts == [BalanceEntries |-> FALSE, EffectiveEntryDate |-> [unix |-> 0, loc |-> 0]]

\* mutant: the amount compared with > instead of >=
BalanceEntries_Above(cfg, xfer) == cfg.FileConfig.BalanceEntries /\ xfer.Amount > 50

\* the balancing decision of Originate
BalanceEntries(cfg, xfer) == cfg.FileConfig.BalanceEntries /\ xfer.Amount >= 50

\* mutant: the first routing check skipped for an empty routing number
SameRouting_NonEmpty(src, dst) ==
    /\ src.RoutingNumber = dst.RoutingNumber
    /\ src.RoutingNumber # ""

\* the first routing check of Originate
SameRouting(src, dst) == src.RoutingNumber = dst.RoutingNumber

\* mutant: the second routing check skipped when no ODFI routing number is configured
ThirdParty_Configured(cfg, src, dst) ==
    /\ cfg.RoutingNumber # ""
    /\ src.RoutingNumber # cfg.RoutingNumber
    /\ dst.RoutingNumber # cfg.RoutingNumber

\* the second routing check of Originate
ThirdParty(cfg, src, dst) ==
    /\ src.RoutingNumber # cfg.RoutingNumber
    /\ dst.RoutingNumber # cfg.RoutingNumber

\* mutant: the debit check made when the source, not the destination, is at the ODFI
DebitRefused_SourceAtODFI(cfg, src, dst) ==
    /\ cfg.RoutingNumber = src.RoutingNumber
    /\ ~EqualFold(src.Status, CUSTOMERSTATUS_VERIFIED)

\* the debit check of Originate
DebitRefused(cfg, src, dst) ==
    /\ cfg.RoutingNumber = dst.RoutingNumber
    /\ ~EqualFold(src.Status, CUSTOMERSTATUS_VERIFIED)

\* mutant: the file returned together with the error of achx.ConstructFile
FileOrError_Both(opts, constructFails) ==
    IF constructFails
    THEN [files |-> 1, err |-> BuildFailed, opts |-> opts]
    ELSE [files |-> 1, err |-> Nil, opts |-> opts]

\* the end of Originate: nil and the wrapped error when achx.ConstructFile fails,
\* else the one file in a slice
FileOrError(opts, constructFails) ==
    IF constructFails
    THEN [files |-> 0, err |-> BuildFailed, opts |-> opts]
    ELSE [files |-> 1, err |-> Nil, opts |-> opts]

\* Originate's results for its arguments; constructFails is the outcome of
\* achx.ConstructFile
OriginateResult(cfg, now, xfer, src, dst, constructFails) ==
    IF SameRouting(src, dst)
    THEN [files |-> 0, err |-> EndpointRejected, opts |-> NoOpts]
    ELSE IF ThirdParty(cfg, src, dst)
    THEN [files |-> 0, err |-> ThirdPartyRejected, opts |-> NoOpts]
    ELSE IF DebitRefused(cfg, src, dst)
    THEN [files |-> 0, err |-> DebitNotAllowed, opts |-> NoOpts]
    ELSE IF xfer.nil
    THEN [files |-> 0, err |-> NilDereference, opts |-> NoOpts]
    ELSE LET opts == [BalanceEntries |-> BalanceEntries(cfg, xfer),
                      EffectiveEntryDate |->
                          calculateEffectiveEntryDate(cfg, now, xfer.SameDay)]
         IN  FileOrError(opts, constructFails)

NoCall == [op |-> "NewFirstPerson"]

\* mutant: opts.FileConfig as an alias of the strategy's FileConfig
ConfigAfterOriginate_Aliased(cfg, result) ==
    IF result.err \in {Nil, BuildFailed}
    THEN [cfg EXCEPT !.FileConfig.BalanceEntries = result.opts.BalanceEntries]
    ELSE cfg

\* fp.cfg after a call of Originate: FirstParty holds its config.ODFI by value and
\* opts.FileConfig is a copy of fp.cfg.FileConfig, so the assignment to
\* opts.FileConfig.BalanceEntries is to the copy
ConfigAfterOriginate(cfg, result) == cfg

Originate(xfer, src, dst, constructFails) ==
    /\ out' = [op |-> "Originate", xfer |-> xfer, src |-> src, dst |-> dst,
               result |-> OriginateResult(fp, timeService, xfer, src, dst, constructFails)]
    /\ fp' = ConfigAfterOriginate(fp, OriginateResult(fp, timeService, xfer, src, dst,
                                                      constructFails))
    /\ UNCHANGED <<holidays, timeService, repoVars, pipeVars, server, achFile>>

\* a call of calculateEffectiveEntryDate with the strategy's configuration and clock
EffectiveEntryDate(sameDay) ==
    /\ out' = [op |-> "calculateEffectiveEntryDate",
               now |-> timeService,
               sameDay |-> sameDay,
               afterCutoffs |-> afterCutoffWindows(fp.Cutoffs, When(fp, timeService)),
               effective |-> calculateEffectiveEntryDate(fp, timeService, sameDay)]
    /\ UNCHANGED <<fp, holidays, timeService, repoVars, pipeVars, server, achFile>>

(***************************************************************************)
(* The inputs of the fund-flow specifications                              *)
(***************************************************************************)
\* the last day the clock reaches
MaxDay == 4

\* cutoff windows, "HH:MM"
W0930 == <<48, 57, 58, 51, 48>>
W1420 == <<49, 52, 58, 50, 48>>

WindowLists == {<<>>, <<W1420>>, <<W0930, W1420>>, <<W1420, W0930>>}

\* UTC, America/New_York (EDT), Asia/Tokyo
Timezones == {0, 0 - 240, 540}

\* 01:00, 10:00, 14:19, 14:20, 15:00, 23:00
ClockMinutes == {60, 600, 859, 860, 900, 1380}

Instants == {[unix |-> d * MinutesPerDay + m, loc |-> 0] : d \in 1..MaxDay, m \in ClockMinutes}

HolidaySets == {{}, {2}, {5}}

ODFIRoutingNumber == "987654320"

RoutingNumbers == {"", ODFIRoutingNumber, "123456780"}

CustomerStatuses == {"", "verified", "VERIFIED", "receive_only"}

Transfers == {NilTransfer} \cup
             [nil : {FALSE}, Amount : {25, 49, 50, 153}, SameDay : BOOLEAN]

ODFI(routingNumber, balanceEntries, windows, timezone) ==
    [RoutingNumber |-> routingNumber,
     FileConfig |-> [BalanceEntries |-> balanceEntries],
     Cutoffs |-> [Timezone |-> timezone, Windows |-> windows]]

\* the fund-flow variables while the repository is exercised
FlowIdle ==
    /\ fp = ODFI(ODFIRoutingNumber, TRUE, <<W1420>>, 0)
    /\ holidays = {}
    /\ timeService = [unix |-> MinutesPerDay, loc |-> 0]
    /\ out = NoCall

\* stime.TimeService: the clock moves on
Tick ==
    /\ \E t \in Instants :
          /\ t.unix > timeService.unix
          /\ timeService' = t
    /\ UNCHANGED <<fp, holidays, out, repoVars, pipeVars, server, achFile>>

(***************************************************************************)
(* The return lookup of the repository                                     *)
(***************************************************************************)
\* 24 * time.Hour: the clock of the repository counts hours
HoursPerDay == 24

\* startOfDayAndTomorrow: in.Truncate(24 * time.Hour) and 24 hours after it
startOfDayAndTomorrow(in) ==
    LET start == in - (in % HoursPerDay)
    IN  <<start, start + HoursPerDay>>

\* mutant: the query of LookupTransferFromReturn without its condition on the status
LookupRows_AnyStatus(amount, traceNumber, effectiveEntryDate) ==
    LET min == startOfDayAndTomorrow(effectiveEntryDate)[1] - 5 * HoursPerDay
        max == startOfDayAndTomorrow(effectiveEntryDate)[2] + 5 * HoursPerDay
    IN  {id \in DOMAIN transfers :
            /\ transfers[id].amount_value = amount
            /\ BagIn(<<id, traceNumber>>, transfer_trace_numbers)
            /\ transfers[id].created_at > min
            /\ transfers[id].created_at < max
            /\ transfers[id].deleted_at = NullTime}

\* the rows the query of LookupTransferFromReturn selects from
LookupRows(amount, traceNumber, effectiveEntryDate) ==
    LET min == startOfDayAndTomorrow(effectiveEntryDate)[1] - 5 * HoursPerDay
        max == startOfDayAndTomorrow(effectiveEntryDate)[2] + 5 * HoursPerDay
    IN  {id \in DOMAIN transfers :
            /\ transfers[id].amount_value = amount
            /\ BagIn(<<id, traceNumber>>, transfer_trace_numbers)
            /\ transfers[id].status = PROCESSED
            /\ transfers[id].created_at > min
            /\ transfers[id].created_at < max
            /\ transfers[id].deleted_at = NullTime}

ErrNoRows == "sql: no rows in result set"

\* getUserTransfer: the *client.Transfer read from the row and its trace numbers,
\* none when no live row of the organization has the ID
getUserTransfer(transferID, orgID) ==
    IF LiveFor(transferID, orgID)
    THEN {[TransferID |-> transferID,
           Amount |-> transfers[transferID].amount_value,
           Status |-> transfers[transferID].status,
           ReturnCode |-> transfers[transferID].return_code,
           ProcessedAt |-> transfers[transferID].processed_at,
           Created |-> transfers[transferID].created_at,
           TraceNumbers |-> getTraceNumbers(transferID)]}
    ELSE {}

\* select organization from transfers where transfer_id = ? and deleted_at is null
GetTransferRows(transferID) ==
    IF Live(transferID) THEN {transfers[transferID].organization} ELSE {}

GetTransfer(transferID) ==
    /\ IF GetTransferRows(transferID) = {}
       THEN ret' = [op |-> "GetTransfer", err |-> ErrNoRows, result |-> {}]
       ELSE \E orgID \in GetTransferRows(transferID) :
               ret' = [op |-> "GetTransfer",
                       err |-> IF getUserTransfer(transferID, orgID) = {} THEN ErrNoRows ELSE Nil,
                       result |-> getUserTransfer(transferID, orgID)]
    /\ UNCHANGED <<transfers, transfer_trace_numbers, tx, clock, flowVars, server, achFile>>

\* the transfer IDs the query of getTransfers selects; status "" is no filter
getTransfersRows(orgID, startDate, endDate, status) ==
    {id \in DOMAIN transfers :
        /\ transfers[id].organization = orgID
        /\ transfers[id].created_at >= startDate
        /\ transfers[id].created_at <= endDate
        /\ transfers[id].deleted_at = NullTime
        /\ status # "" => transfers[id].status = status}

\* getTransfers with a Count no smaller than the number of rows and no Skip
getTransfers(orgID, startDate, endDate, status) ==
    /\ ret' = [op |-> "getTransfers", err |-> Nil,
               result |-> UNION {getUserTransfer(id, orgID) :
                                    id \in getTransfersRows(orgID, startDate, endDate, status)}]
    /\ UNCHANGED <<transfers, transfer_trace_numbers, tx, clock, flowVars, server, achFile>>

\* LookupTransferFromReturn: one of the rows of the query (limit 1), read again
\* with getUserTransfer
LookupTransferFromReturn(amount, traceNumber, effectiveEntryDate) ==
    /\ LET rows == LookupRows(amount, traceNumber, effectiveEntryDate)
       IN  IF rows = {}
           THEN ret' = [op |-> "LookupTransferFromReturn", err |-> ErrNoRows, result |-> {}]
           ELSE \E transferID \in rows :
                   ret' = [op |-> "LookupTransferFromReturn", err |-> Nil,
                           result |-> getUserTransfer(transferID,
                                                      transfers[transferID].organization)]
    /\ UNCHANGED <<transfers, transfer_trace_numbers, tx, clock, flowVars, server, achFile>>

(***************************************************************************)
(* The callers of the repository: the HTTP handlers, the aggregator and    *)
(* the return reconciler, as the specification describes them              *)
(***************************************************************************)
AggIdle ==
    [pc |-> "idle", G |-> {}, files |-> {}, failed |-> {}, todo |-> {}, cur |-> "", last |-> ""]

RecIdle == [pc |-> "idle", transferID |-> "", returnCode |-> ""]

\* the pipeline while only the repository or the strategy is exercised
PipeIdle ==
    /\ mergeBuffer = {}
    /\ uploads = {}
    /\ agg = AggIdle
    /\ rec = RecIdle

\* POST /transfers: persist the transfer as PENDING under a fresh ID, publish it;
\* the aggregator's subscription adds the ID to the merge buffer
CreateUserTransfer(orgID, transferID, amount) ==
    /\ ~Exists(transferID)
    /\ WriteUserTransfer(orgID, transferID, amount, PENDING)
    /\ mergeBuffer' = mergeBuffer \cup {transferID}
    /\ UNCHANGED <<uploads, agg, rec>>

\* DELETE /transfers/{id}
DeleteUserTransfer(orgID, transferID) ==
    /\ \/ deleteUserTransferSelect(orgID, transferID)
       \/ /\ tx.orgID = orgID
          /\ tx.transferID = transferID
          /\ deleteUserTransferExec
    /\ UNCHANGED pipeVars

\* mutant: CANCELED allowed from every status
AllowedStatusUpdate_CancelAny(from, to) ==
    \/ to = CANCELED
    \/ from = PENDING /\ to = REVIEWABLE
    \/ from = REVIEWABLE /\ to = PENDING

\* the admin API: PENDING may be updated to CANCELED or REVIEWABLE, REVIEWABLE
\* to CANCELED or PENDING
AllowedStatusUpdate(from, to) ==
    \/ from = PENDING /\ to \in {CANCELED, REVIEWABLE}
    \/ from = REVIEWABLE /\ to \in {CANCELED, PENDING}

ErrInvalidStatus == "invalid status transition"

\* PUT /transfers/{id}/status of the admin API
UpdateUserTransferStatus(transferID, status) ==
    /\ Live(transferID)
    /\ IF AllowedStatusUpdate(transfers[transferID].status, status)
       THEN UpdateTransferStatus(transferID, status)
       ELSE /\ ret' = [op |-> "UpdateTransferStatus", err |-> ErrInvalidStatus]
            /\ UNCHANGED <<transfers, transfer_trace_numbers, tx, clock, flowVars, server, achFile>>
    /\ UNCHANGED pipeVars

\* the aggregator on a cutoff tick: drain the merge buffer into a generation G
FlushDrain ==
    /\ agg.pc = "idle"
    /\ mergeBuffer # {}
    /\ agg' = [pc |-> "build", G |-> mergeBuffer, files |-> {}, failed |-> {},
               todo |-> mergeBuffer, cur |-> "", last |-> agg.last]
    /\ mergeBuffer' = {}
    /\ UNCHANGED <<uploads, rec, repoVars, flowVars, server, achFile>>

\* read one transfer of G: skip it unless it is PENDING, else build its file; a
\* transfer whose file cannot be built is noted, to be marked FAILED
FlushBuild(transferID, buildFails) ==
    /\ agg.pc = "build"
    /\ transferID \in agg.todo
    /\ agg' = IF Live(transferID) /\ transfers[transferID].status = PENDING
              THEN IF buildFails
                   THEN [agg EXCEPT !.todo = @ \ {transferID},
                                    !.failed = @ \cup {transferID}]
                   ELSE [agg EXCEPT !.todo = @ \ {transferID},
                                    !.files = @ \cup {transferID}]
              ELSE [agg EXCEPT !.todo = @ \ {transferID}]
    /\ UNCHANGED <<mergeBuffer, uploads, rec, repoVars, flowVars, server, achFile>>

\* mutant: the generation recorded although its upload failed
FlushUpload_NoRollback(ok) ==
    /\ agg.pc = "build"
    /\ agg.todo = {}
    /\ uploads' = IF ok THEN uploads \cup agg.files ELSE uploads
    /\ agg' = [agg EXCEPT !.pc = "record", !.todo = agg.files \cup agg.failed]
    /\ UNCHANGED <<mergeBuffer, rec, repoVars, flowVars, server, achFile>>

\* upload the files of the generation: on success go on to record them, on
\* failure roll G back into the merge buffer and change no transfer
FlushUpload(ok) ==
    /\ agg.pc = "build"
    /\ agg.todo = {}
    /\ IF ok
       THEN /\ uploads' = uploads \cup agg.files
            /\ agg' = [agg EXCEPT !.pc = "record", !.todo = agg.files \cup agg.failed]
            /\ UNCHANGED mergeBuffer
       ELSE /\ mergeBuffer' = mergeBuffer \cup agg.G
            /\ agg' = [AggIdle EXCEPT !.last = "rolled back", !.G = agg.G]
            /\ UNCHANGED uploads
    /\ UNCHANGED <<rec, repoVars, flowVars, server, achFile>>

\* after the upload: persist the (transferID, traceNumber) rows of one included
\* transfer, one row per entry of its file
FlushSaveTraceNumbers(transferID, traceNumbers) ==
    /\ agg.pc = "record"
    /\ agg.cur = ""
    /\ transferID \in agg.todo \cap agg.files
    /\ saveTraceNumbers(transferID, traceNumbers)
    /\ agg' = [agg EXCEPT !.cur = transferID]
    /\ UNCHANGED <<mergeBuffer, uploads, rec>>

\* the rows of transfers after a transfer is marked PROCESSED: the status update
\* of the repository, and processedAt = now
MarkProcessedRows(transferID) ==
    IF Live(transferID)
    THEN [UpdateStatusRows(transferID, PROCESSED) EXCEPT ![transferID].processed_at = clock]
    ELSE transfers

\* then set the transfer's status to PROCESSED and its processedAt
FlushMarkProcessed ==
    /\ agg.pc = "record"
    /\ agg.cur # ""
    /\ transfers' = MarkProcessedRows(agg.cur)
    /\ ret' = [op |-> "UpdateTransferStatus", err |-> Nil]
    /\ UNCHANGED <<transfer_trace_numbers, tx, clock, flowVars, server, achFile>>
    /\ agg' = [agg EXCEPT !.cur = "", !.todo = @ \ {agg.cur}]
    /\ UNCHANGED <<mergeBuffer, uploads, rec>>

\* mark a transfer whose file could not be built FAILED
FlushMarkFailed(transferID) ==
    /\ agg.pc = "record"
    /\ agg.cur = ""
    /\ transferID \in agg.todo \cap agg.failed
    /\ UpdateTransferStatus(transferID, FAILED)
    /\ agg' = [agg EXCEPT !.todo = @ \ {transferID}]
    /\ UNCHANGED <<mergeBuffer, uploads, rec>>

\* mutant: the generation committed before every transfer of it is recorded
FlushCommit_Early ==
    /\ agg.pc = "record"
    /\ agg.cur = ""
    /\ agg' = [AggIdle EXCEPT !.last = "committed"]
    /\ UNCHANGED <<mergeBuffer, uploads, rec, repoVars, flowVars, server, achFile>>

\* commit generation G
FlushCommit ==
    /\ agg.pc = "record"
    /\ agg.cur = ""
    /\ agg.todo = {}
    /\ agg' = [AggIdle EXCEPT !.last = "committed"]
    /\ UNCHANGED <<mergeBuffer, uploads, rec, repoVars, flowVars, server, achFile>>

\* the return reconciler on one return entry: LookupTransferFromReturn
ReturnLookup(amount, traceNumber, effectiveEntryDate, returnCode) ==
    /\ rec.pc = "idle"
    /\ LET rows == LookupRows(amount, traceNumber, effectiveEntryDate)
       IN  IF rows = {}
           THEN /\ ret' = [op |-> "LookupTransferFromReturn", err |-> ErrNoRows,
                            effectiveEntryDate |-> effectiveEntryDate]
                /\ UNCHANGED rec
           ELSE /\ ret' = [op |-> "LookupTransferFromReturn", err |-> Nil,
                            effectiveEntryDate |-> effectiveEntryDate]
                /\ \E transferID \in rows :
                      rec' = [pc |-> "matched", transferID |-> transferID,
                              returnCode |-> returnCode]
    /\ UNCHANGED <<transfers, transfer_trace_numbers, tx, clock, flowVars, server, achFile>>
    /\ UNCHANGED <<mergeBuffer, uploads, agg>>

\* on match: record the return code
ReturnSaveCode ==
    /\ rec.pc = "matched"
    /\ SaveReturnCode(rec.transferID, rec.returnCode)
    /\ rec' = [rec EXCEPT !.pc = "saved"]
    /\ UNCHANGED <<mergeBuffer, uploads, agg>>

\* then set the transfer's status to RETURNED
ReturnMarkReturned ==
    /\ rec.pc = "saved"
    /\ UpdateTransferStatus(rec.transferID, RETURNED)
    /\ rec' = RecIdle
    /\ UNCHANGED <<mergeBuffer, uploads, agg>>

(***************************************************************************)
(* The server process: main of cmd/server                                  *)
(***************************************************************************)
\* the statements of main in program order: what the statement starts or opens,
\* whether its failure makes main panic, and whether it defers the close
Statements == <<
    [starts |-> "tracer",               panics |-> TRUE,  defers |-> TRUE],
    [starts |-> "ctx",                  panics |-> FALSE, defers |-> TRUE],
    [starts |-> "db",                   panics |-> TRUE,  defers |-> TRUE],
    [starts |-> "adminServer",          panics |-> FALSE, defers |-> TRUE],
    [starts |-> "transferPublisher",    panics |-> TRUE,  defers |-> TRUE],
    [starts |-> "transferSubscription", panics |-> TRUE,  defers |-> TRUE],
    [starts |-> "agent",                panics |-> FALSE, defers |-> TRUE],
    [starts |-> "merger",               panics |-> TRUE,  defers |-> FALSE],
    [starts |-> "cutoffs",              panics |-> TRUE,  defers |-> FALSE],
    [starts |-> "xferAgg",              panics |-> TRUE,  defers |-> TRUE],
    [starts |-> "accountDecryptor",     panics |-> TRUE,  defers |-> FALSE],
    [starts |-> "transfersRepo",        panics |-> FALSE, defers |-> TRUE],
    [starts |-> "serve",                panics |-> FALSE, defers |-> TRUE],
    [starts |-> "inboundProcessor",     panics |-> FALSE, defers |-> TRUE] >>

\* what a deferred call closes: transfersRepo.Close is sqlRepo.Close, which closes
\* the *sql.DB the repositories share
Closes(name) ==
    IF name = "transfersRepo" THEN {"transfersRepo", "db"} ELSE {name}

NotStarted ==
    [pc |-> "starting", step |-> 1, deferred |-> <<>>, running |-> {},
     closed |-> <<>>, flush |-> FALSE, exit |-> ""]

\* one statement of main: it panics on failure, or it starts its component and
\* pushes the deferred close
Startup(fails) ==
    /\ server.pc = "starting"
    /\ server.step <= Len(Statements)
    /\ LET stmt == Statements[server.step]
       IN  IF fails /\ stmt.panics
           THEN server' = [server EXCEPT !.pc = "exiting", !.exit = "panic"]
           ELSE IF fails
           THEN \* upload.New failed: logged, main goes on and still defers agent.Close
                /\ stmt.starts = "agent"
                /\ server' = [server EXCEPT !.step = @ + 1,
                                            !.deferred = <<stmt.starts>> \o @]
           ELSE server' = [server EXCEPT
                              !.step = @ + 1,
                              !.running = @ \cup {stmt.starts},
                              !.deferred = IF stmt.defers THEN <<stmt.starts>> \o @ ELSE @]
    /\ UNCHANGED <<repoVars, flowVars, pipeVars, achFile>>

\* main blocks on errs until a signal arrives or the admin server fails to listen
Terminate(cause) ==
    /\ server.pc = "starting"
    /\ server.step > Len(Statements)
    /\ server' = [server EXCEPT !.pc = "exiting", !.exit = cause]
    /\ UNCHANGED <<repoVars, flowVars, pipeVars, achFile>>

\* the aggregator's goroutine starts a flush on a cutoff
FlushBegins ==
    /\ "xferAgg" \in server.running
    /\ ~server.flush
    /\ server' = [server EXCEPT !.flush = TRUE]
    /\ UNCHANGED <<repoVars, flowVars, pipeVars, achFile>>

\* and finishes it
FlushEnds ==
    /\ server.flush
    /\ server' = [server EXCEPT !.flush = FALSE]
    /\ UNCHANGED <<repoVars, flowVars, pipeVars, achFile>>

\* main returns or panics: the deferred calls run last in, first out; the
\* aggregator's Shutdown returns once its flush in flight is finished
RunDeferred ==
    /\ server.pc = "exiting"
    /\ server.deferred # <<>>
    /\ LET name == Head(server.deferred)
       IN  /\ name = "xferAgg" => ~server.flush
           /\ server' = [server EXCEPT
                            !.deferred = Tail(@),
                            !.running = @ \ Closes(name),
                            !.closed = Append(@, name)]
    /\ UNCHANGED <<repoVars, flowVars, pipeVars, achFile>>

(***************************************************************************)
(* The file names of the upload package. A file name is the sequence of its *)
(* characters.                                                             *)
(***************************************************************************)
Digits == <<"0", "1", "2", "3", "4", "5", "6", "7", "8", "9">>

Letters ==
    <<"A", "B", "C", "D", "E", "F", "G", "H", "I", "J", "K", "L", "M", "N", "O", "P", "Q", "R", "S", "T", "U", "V", "W", "X", "Y", "Z">>

\* the sequence numbers a single character can be written for
SequenceNumbers == 0 .. (Len(Digits) + Len(Letters) - 1)

\* mutant: the sequence number written in decimal
RoundSequenceNumber_Decimal(seq) ==
    IF seq < Len(Digits)
    THEN <<Digits[seq + 1]>>
    ELSE <<Digits[(seq \div Len(Digits)) + 1], Digits[(seq % Len(Digits)) + 1]>>

\* RoundSequenceNumber: 0-9 as '0'-'9', 10-35 as 'A'-'Z'
RoundSequenceNumber(seq) ==
    IF seq < Len(Digits)
    THEN <<Digits[seq + 1]>>
    ELSE <<Letters[seq - Len(Digits) + 1]>>

Dash == "-"

AchSuffix == <<".", "a", "c", "h">>

GpgSuffix == <<".", "g", "p", "g">>

\* the substitutions of a filename template
Substitution(name, data) ==
    CASE name = "date" -> data.date
      [] name = "time" -> data.time
      [] name = "routing" -> data.RoutingNumber
      [] name = "seq" -> RoundSequenceNumber(data.seq)
      [] OTHER -> <<"m", "y">>

RECURSIVE JoinSegments(_)
JoinSegments(segments) ==
    IF segments = <<>> THEN <<>>
    ELSE IF Len(segments) = 1 THEN segments[1]
    ELSE segments[1] \o <<Dash>> \o JoinSegments(Tail(segments))

\* RenderACHFilename under a template of "-" separated substitutions that ends
\* .ach{{ if .GPG }}.gpg{{ end }}
RenderACHFilename(tmpl, data) ==
    JoinSegments([i \in 1..Len(tmpl) |-> Substitution(tmpl[i], data)])
        \o AchSuffix \o (IF data.GPG THEN GpgSuffix ELSE <<>>)

HasPrefix(s, prefix) ==
    Len(s) >= Len(prefix) /\ SubSeq(s, 1, Len(prefix)) = prefix

\* strings.NewReplacer(".ach", "", ".gpg", "").Replace
RECURSIVE StripSuffixes(_)
StripSuffixes(s) ==
    IF s = <<>> THEN <<>>
    ELSE IF HasPrefix(s, AchSuffix) THEN StripSuffixes(SubSeq(s, Len(AchSuffix) + 1, Len(s)))
    ELSE IF HasPrefix(s, GpgSuffix) THEN StripSuffixes(SubSeq(s, Len(GpgSuffix) + 1, Len(s)))
    ELSE <<s[1]>> \o StripSuffixes(Tail(s))

\* strings.Split(s, "-"): the parts of s between the dashes, at least one part
RECURSIVE SplitDash(_)
SplitDash(s) ==
    IF \A i \in 1..Len(s) : s[i] # Dash
    THEN <<s>>
    ELSE LET i == CHOOSE k \in 1..Len(s) : s[k] = Dash /\ \A j \in 1..(k - 1) : s[j] # Dash
         IN  <<SubSeq(s, 1, i - 1)>> \o SplitDash(SubSeq(s, i + 1, Len(s)))

IndexOf(c, chars) == CHOOSE i \in 1..Len(chars) : chars[i] = c

\* the sequence number a part of a file name stands for, 0 when it is not one
PartSeq(part) ==
    IF Len(part) # 1 THEN 0
    ELSE IF \E i \in 1..Len(Letters) : Letters[i] = part[1]
         THEN IndexOf(part[1], Letters) - 1 + Len(Digits)
    ELSE IF \E i \in 1..Len(Digits) : Digits[i] = part[1]
         THEN IndexOf(part[1], Digits) - 1
    ELSE 0

RECURSIVE FirstPartSeq(_)
FirstPartSeq(parts) ==
    IF parts = <<>> THEN 0
    ELSE IF PartSeq(parts[1]) > 0 THEN PartSeq(parts[1])
    ELSE FirstPartSeq(Tail(parts))

\* ACHFilenameSeq: the sequence number of the first part that is one; 0 when the
\* file name has none
ACHFilenameSeq(filename) == FirstPartSeq(SplitDash(StripSuffixes(filename)))

\* the file names of TestFilenameTemplate__ACHFilenameSeq with the sequence
\* numbers it expects
TestFilenames ==
    {<<<<>>, 0>>,
     <<<<"2", "0", "2", "1", "0", "1", "0", "2", "-", "C", ".", "a", "c", "h">>, 12>>,
     <<<<"2", "0", "0", "6", "0", "1", "0", "2", "-", "0", "8", "3", "0", "-", "9", "8", "7", "6", "5", "4", "3", "2", "0", "-", "1", ".", "a", "c", "h">>, 1>>,
     <<<<"2", "0", "0", "6", "0", "1", "0", "2", "-", "9", "8", "7", "6", "5", "4", "3", "2", "0", "-", "1", ".", "a", "c", "h">>, 1>>,
     <<<<"2", "0", "0", "6", "0", "1", "0", "2", "-", "9", "8", "7", "6", "5", "4", "3", "2", "0", "-", "2", ".", "a", "c", "h", ".", "g", "p", "g">>, 2>>,
     <<<<"m", "y", "-", "2", "0", "0", "6", "0", "1", "0", "2", "-", "9", "8", "7", "6", "5", "4", "3", "2", "0", "-", "3", ".", "a", "c", "h">>, 3>>,
     <<<<"2", "0", "0", "6", "0", "1", "0", "2", "-", "B", "-", "9", "8", "7", "6", "5", "4", "3", "2", "0", ".", "a", "c", "h">>, 11>>}

NoData == [RoutingNumber |-> <<>>, GPG |-> FALSE, seq |-> 0, date |-> <<>>, time |-> <<>>]

NotRendered == [pc |-> "none", tmpl |-> <<>>, data |-> NoData, filename |-> <<>>, n |-> 0]

\* render the file name of a file
Render ==
    /\ achFile.pc = "data"
    /\ achFile' = [achFile EXCEPT !.pc = "rendered",
                                  !.filename = RenderACHFilename(achFile.tmpl, achFile.data)]
    /\ UNCHANGED <<repoVars, flowVars, pipeVars, server>>

\* read the sequence number of a file name
ParseSeq ==
    /\ achFile.pc = "rendered"
    /\ achFile' = [achFile EXCEPT !.pc = "parsed", !.n = ACHFilenameSeq(achFile.filename)]
    /\ UNCHANGED <<repoVars, flowVars, pipeVars, server>>

(***************************************************************************)
(* The repository under arbitrary callers                                  *)
(***************************************************************************)
RepoInit ==
    /\ transfers = <<>>
    /\ transfer_trace_numbers = EmptyBag
    /\ tx = NoTx
    /\ ret = [op |-> "NewRepo", err |-> Nil]
    /\ clock = 0

RepoNext ==
    \/ \E orgID \in Organizations, transferID \in TransferIDs,
          amount \in Amounts, status \in TransferStatus :
            WriteUserTransfer(orgID, transferID, amount, status) /\ UNCHANGED pipeVars
    \/ \E transferID \in TransferIDs, status \in TransferStatus :
            UpdateTransferStatus(transferID, status) /\ UNCHANGED pipeVars
    \/ \E orgID \in Organizations, transferID \in TransferIDs :
            deleteUserTransferSelect(orgID, transferID) /\ UNCHANGED pipeVars
    \/ deleteUserTransferExec /\ UNCHANGED pipeVars
    \/ \E transferID \in TransferIDs, returnCode \in ReturnCodes :
            SaveReturnCode(transferID, returnCode) /\ UNCHANGED pipeVars
    \/ \E transferID \in TransferIDs, traceNumbers \in TraceLists :
            saveTraceNumbers(transferID, traceNumbers) /\ UNCHANGED pipeVars

vars == <<transfers, transfer_trace_numbers, tx, ret, clock, fp, holidays, timeService, out,
          mergeBuffer, uploads, agg, rec, server, achFile>>

Init == RepoInit /\ FlowIdle /\ PipeIdle /\ server = NotStarted /\ achFile = NotRendered

Next == RepoNext

Spec == Init /\ [][Next]_vars

(***************************************************************************)
(* The repository under arbitrary callers that also read                   *)
(***************************************************************************)
\* the arguments of the reads: amounts and trace numbers stored and not stored,
\* dates within and outside the window, status filters
LookupAmounts == Amounts \cup {200}

LookupTraceNumbers == TraceNumbers \cup {"T2"}

ReturnDays == {0, 6 * HoursPerDay}

StatusFilters == {"", PENDING, PROCESSED}

ReadNext ==
    \/ \E transferID \in TransferIDs : GetTransfer(transferID) /\ UNCHANGED pipeVars
    \/ \E orgID \in Organizations, startDate \in {0, HoursPerDay}, endDate \in {0, HoursPerDay},
          status \in StatusFilters :
            getTransfers(orgID, startDate, endDate, status) /\ UNCHANGED pipeVars
    \/ \E amount \in LookupAmounts, traceNumber \in LookupTraceNumbers,
          effectiveEntryDate \in ReturnDays :
            LookupTransferFromReturn(amount, traceNumber, effectiveEntryDate)
                /\ UNCHANGED pipeVars

\* the statuses and the return code the writers of this specification use
ReadStatuses == {PENDING, PROCESSED, RETURNED}

ReadReturnCodes == {"R01"}

WriteNext ==
    \/ \E orgID \in Organizations, transferID \in TransferIDs,
          amount \in Amounts, status \in ReadStatuses :
            WriteUserTransfer(orgID, transferID, amount, status) /\ UNCHANGED pipeVars
    \/ \E transferID \in TransferIDs, status \in ReadStatuses :
            UpdateTransferStatus(transferID, status) /\ UNCHANGED pipeVars
    \/ \E orgID \in Organizations, transferID \in TransferIDs :
            deleteUserTransferSelect(orgID, transferID) /\ UNCHANGED pipeVars
    \/ deleteUserTransferExec /\ UNCHANGED pipeVars
    \/ \E transferID \in TransferIDs, returnCode \in ReadReturnCodes :
            SaveReturnCode(transferID, returnCode) /\ UNCHANGED pipeVars
    \/ \E transferID \in TransferIDs, traceNumbers \in TraceLists :
            saveTraceNumbers(transferID, traceNumbers) /\ UNCHANGED pipeVars

ReadsNext == WriteNext \/ ReadNext

SpecReads == Init /\ [][ReadsNext]_vars

(***************************************************************************)
(* calculateEffectiveEntryDate under every clock, cutoff configuration and *)
(* calendar                                                                *)
(***************************************************************************)
EEDInit ==
    /\ RepoInit
    /\ PipeIdle
    /\ server = NotStarted /\ achFile = NotRendered
    /\ fp \in {ODFI(ODFIRoutingNumber, TRUE, w, z) : w \in WindowLists, z \in Timezones}
    /\ holidays \in HolidaySets
    /\ timeService \in Instants
    /\ out = NoCall

EEDNext ==
    \/ Tick
    \/ \E sameDay \in BOOLEAN : EffectiveEntryDate(sameDay)

SpecEED == EEDInit /\ [][EEDNext]_vars

(***************************************************************************)
(* Originate under every configuration and every transfer                  *)
(***************************************************************************)
OriginateInit ==
    /\ RepoInit
    /\ PipeIdle
    /\ server = NotStarted /\ achFile = NotRendered
    /\ fp \in {ODFI(r, b, <<W1420>>, 0 - 240) : r \in {"", ODFIRoutingNumber}, b \in BOOLEAN}
    /\ holidays = {}
    /\ timeService \in {t \in Instants : t.unix \in {MinutesPerDay + 600, MinutesPerDay + 900}}
    /\ out = NoCall

OriginateNext ==
    \E xfer \in Transfers, sr \in RoutingNumbers, dr \in RoutingNumbers,
       status \in CustomerStatuses, constructFails \in BOOLEAN :
        Originate(xfer,
                  [RoutingNumber |-> sr, Status |-> status],
                  [RoutingNumber |-> dr],
                  constructFails)

SpecOriginate == OriginateInit /\ [][OriginateNext]_vars

(***************************************************************************)
(* The repository under its callers: API, admin API, aggregator and return *)
(* reconciler                                                              *)
(***************************************************************************)
\* the trace numbers of the entries of one file: one per entry, all different
FileTraceLists == {l \in TraceLists : Len(l) >= 1 /\ \A i, j \in DOMAIN l : l[i] = l[j] => i = j}

\* the effective entry dates return entries carry: the day of creation, and six
\* days after it
ReturnDates == {0, 6 * HoursPerDay}

PipelineInit == RepoInit /\ FlowIdle /\ PipeIdle /\ server = NotStarted /\ achFile = NotRendered

PipelineNext ==
    \/ \E orgID \in Organizations, transferID \in TransferIDs, amount \in Amounts :
            CreateUserTransfer(orgID, transferID, amount)
    \/ \E orgID \in Organizations, transferID \in TransferIDs :
            DeleteUserTransfer(orgID, transferID)
    \/ \E transferID \in TransferIDs, status \in TransferStatus :
            UpdateUserTransferStatus(transferID, status)
    \/ FlushDrain
    \/ \E transferID \in TransferIDs, buildFails \in BOOLEAN :
            FlushBuild(transferID, buildFails)
    \/ \E ok \in BOOLEAN : FlushUpload(ok)
    \/ \E transferID \in TransferIDs, traceNumbers \in FileTraceLists :
            FlushSaveTraceNumbers(transferID, traceNumbers)
    \/ FlushMarkProcessed
    \/ \E transferID \in TransferIDs : FlushMarkFailed(transferID)
    \/ FlushCommit
    \/ \E amount \in Amounts, traceNumber \in TraceNumbers,
          effectiveEntryDate \in ReturnDates, returnCode \in ReturnCodes :
            ReturnLookup(amount, traceNumber, effectiveEntryDate, returnCode)
    \/ ReturnSaveCode
    \/ ReturnMarkReturned

SpecPipeline == PipelineInit /\ [][PipelineNext]_vars

(***************************************************************************)
(* The server process from its start to the last deferred call             *)
(***************************************************************************)
ShutdownInit == RepoInit /\ FlowIdle /\ PipeIdle /\ server = NotStarted /\ achFile = NotRendered

ShutdownNext ==
    \/ \E fails \in BOOLEAN : Startup(fails)
    \/ \E cause \in {"signal", "admin listen error"} : Terminate(cause)
    \/ FlushBegins
    \/ FlushEnds
    \/ RunDeferred

SpecShutdown == ShutdownInit /\ [][ShutdownNext]_vars

(***************************************************************************)
(* File names rendered under every template and sequence number, and parsed *)
(***************************************************************************)
FilenameTemplates ==
    {<<"date">>, <<"date", "time", "routing">>, <<"date", "seq">>,
     <<"date", "routing", "seq">>, <<"date", "time", "routing", "seq">>,
     <<"my", "date", "routing", "seq">>, <<"date", "seq", "routing">>}

FilenameDates == {<<"2", "0", "0", "6", "0", "1", "0", "2">>, <<"2", "0", "2", "1", "0", "1", "0", "2">>}

FilenameTimes == {<<"0", "8", "3", "0">>, <<"0", "0", "0", "5">>}

FilenameData ==
    [RoutingNumber : {<<"9", "8", "7", "6", "5", "4", "3", "2", "0">>}, GPG : BOOLEAN, seq : SequenceNumbers,
     date : FilenameDates, time : FilenameTimes]

FilenameInit ==
    /\ RepoInit
    /\ FlowIdle
    /\ PipeIdle
    /\ server = NotStarted
    /\ achFile \in
          {[pc |-> "data", tmpl |-> tmpl, data |-> data, filename |-> <<>>, n |-> 0] :
                tmpl \in FilenameTemplates, data \in FilenameData}
          \cup {[NotRendered EXCEPT !.pc = "rendered", !.filename = t[1]] : t \in TestFilenames}

FilenameNext ==
    \/ Render
    \/ ParseSeq

SpecFilename == FilenameInit /\ [][FilenameNext]_vars

(***************************************************************************)
(* The return lookup for transfers created on the days around the return's *)
(* effective entry date                                                    *)
(***************************************************************************)
\* the return's effective entry date: two instants of day 7
WindowReturnDates == {7 * HoursPerDay, 7 * HoursPerDay + 12}

\* time.Now() when a transfer is written: the last hour of day 1, the first hours
\* of day 2, an hour of day 7, the last hour of day 12, the first hour of day 13
WindowClocks ==
    {2 * HoursPerDay - 1, 2 * HoursPerDay, 2 * HoursPerDay + 1, 7 * HoursPerDay + 2,
     13 * HoursPerDay - 1, 13 * HoursPerDay}

\* time passes
AdvanceClock(now) ==
    /\ now > clock
    /\ clock' = now
    /\ UNCHANGED <<transfers, transfer_trace_numbers, tx, ret, flowVars, server, achFile>>

WindowInit == Init

WindowNext ==
    \/ \E now \in WindowClocks : AdvanceClock(now) /\ UNCHANGED pipeVars
    \/ \E orgID \in Organizations, transferID \in TransferIDs, amount \in Amounts :
            WriteUserTransfer(orgID, transferID, amount, PROCESSED) /\ UNCHANGED pipeVars
    \/ \E transferID \in TransferIDs, traceNumbers \in TraceLists :
            saveTraceNumbers(transferID, traceNumbers) /\ UNCHANGED pipeVars
    \/ \E amount \in Amounts, traceNumber \in TraceNumbers,
          effectiveEntryDate \in WindowReturnDates :
            LookupTransferFromReturn(amount, traceNumber, effectiveEntryDate)
                /\ UNCHANGED pipeVars

SpecWindow == WindowInit /\ [][WindowNext]_vars

(***************************************************************************)
(* Claims about the repository, checked under Spec                         *)
(***************************************************************************)
Terminal == {PROCESSED, CANCELED, RETURNED, FAILED}

\* the step sets deleted_at of an existing row
SoftDeletes(transferID) ==
    /\ Live(transferID)
    /\ transfers'[transferID].deleted_at # NullTime

\* C1: deleteUserTransfer soft-deletes a transfer if and only if its stored status
\* is PENDING: deleted_at is only ever set by deleteUserTransfer on a PENDING row;
\* for a live transfer of orgID whose status is not PENDING the call returns the
\* "not in PENDING status" error and leaves both tables unchanged; and its update
\* sets deleted_at exactly when the row it addresses is PENDING.
C1_DeleteIffPending ==
    [][ /\ \A transferID \in TransferIDs :
              SoftDeletes(transferID) =>
                  /\ transfers[transferID].status = PENDING
                  /\ ret'.op = "deleteUserTransfer"
                  /\ ret'.err = Nil
        /\ \A orgID \in Organizations, transferID \in TransferIDs :
              (deleteUserTransferSelect(orgID, transferID) /\ LiveFor(transferID, orgID)) =>
                  IF transfers[transferID].status = PENDING
                  THEN tx'.pc = "selected" /\ tx'.transferID = transferID
                  ELSE /\ ret' = [op |-> "deleteUserTransfer", err |-> ErrNotPending]
                       /\ transfers' = transfers
                       /\ transfer_trace_numbers' = transfer_trace_numbers
        /\ (deleteUserTransferExec /\ LiveFor(tx.transferID, tx.orgID)) =>
              /\ SoftDeletes(tx.transferID) <=> transfers[tx.transferID].status = PENDING
              /\ transfers[tx.transferID].status # PENDING => transfers' = transfers
              /\ \A f \in {"organization", "amount_value", "status", "return_code", "created_at"} :
                    transfers'[tx.transferID][f] = transfers[tx.transferID][f]
              /\ transfer_trace_numbers' = transfer_trace_numbers
      ]_vars

\* C1 witness: a deleteUserTransfer call has returned nil and left a PENDING
\* transfer soft-deleted.
C1_Witness ==
    /\ ret = [op |-> "deleteUserTransfer", err |-> Nil]
    /\ \E transferID \in DOMAIN transfers :
          /\ transfers[transferID].deleted_at # NullTime
          /\ transfers[transferID].status = PENDING

\* C2: a stored return code is never overwritten: a non-null return_code stays what
\* it is in every step; SaveReturnCode never reports an error; it stores the code
\* it is passed when its update finds the row (live, return_code null), and changes
\* nothing otherwise.
C2_ReturnCodeNeverOverwritten ==
    [][ /\ \A transferID \in DOMAIN transfers :
              transfers[transferID].return_code # NullCode =>
                  /\ transferID \in DOMAIN transfers'
                  /\ transfers'[transferID].return_code = transfers[transferID].return_code
        /\ \A transferID \in TransferIDs, returnCode \in ReturnCodes :
              SaveReturnCode(transferID, returnCode) =>
                  /\ ret'.err = Nil
                  /\ IF Live(transferID) /\ transfers[transferID].return_code = NullCode
                     THEN transfers'[transferID].return_code = returnCode
                     ELSE transfers' = transfers
      ]_vars

\* C2 witness: SaveReturnCode has returned with a return code stored.
C2_Witness ==
    /\ ret = [op |-> "SaveReturnCode", err |-> Nil]
    /\ \E transferID \in DOMAIN transfers : transfers[transferID].return_code = "R01"

\* C4 as claimed: no step changes the status of a transfer that is in a terminal
\* status.
C4_TerminalStatusFrozen ==
    [][ \A transferID \in DOMAIN transfers :
            transfers[transferID].status \in Terminal =>
                transfers'[transferID].status = transfers[transferID].status
      ]_vars

\* C4 amended: of a transfer in a terminal status, deleteUserTransfer,
\* saveTraceNumbers, SaveReturnCode and WriteUserTransfer change neither the status
\* nor deleted_at, and its return code changes only from null; the status changes
\* only by UpdateTransferStatus, which checks deleted_at alone.
C4_TerminalOnlyStatusUpdate ==
    [][ \A transferID \in DOMAIN transfers :
            transfers[transferID].status \in Terminal =>
                /\ transferID \in DOMAIN transfers'
                /\ \/ transfers'[transferID].status = transfers[transferID].status
                   \/ /\ ret'.op = "UpdateTransferStatus"
                      /\ transfers[transferID].deleted_at = NullTime
                /\ transfers'[transferID].deleted_at = transfers[transferID].deleted_at
                /\ transfers'[transferID].organization = transfers[transferID].organization
                /\ transfers'[transferID].amount_value = transfers[transferID].amount_value
                /\ transfers'[transferID].created_at = transfers[transferID].created_at
                /\ \/ transfers'[transferID].return_code = transfers[transferID].return_code
                   \/ /\ ret'.op = "SaveReturnCode"
                      /\ transfers[transferID].return_code = NullCode
      ]_vars

\* C4 witness: a deleteUserTransfer call has returned its error for a transfer in
\* a terminal status, which is still live.
C4_Witness ==
    /\ ret = [op |-> "deleteUserTransfer", err |-> ErrNotPending]
    /\ \E transferID \in DOMAIN transfers :
          /\ transfers[transferID].status \in Terminal
          /\ transfers[transferID].deleted_at = NullTime

WindowMinute(w) ==
    ((w[1] - 48) * 10 + (w[2] - 48)) * 60 + (w[4] - 48) * 10 + (w[5] - 48)

\* the latest of the configured windows, by the time of day it names
LatestWindow(windows) ==
    CHOOSE m \in {WindowMinute(windows[i]) : i \in DOMAIN windows} :
        \A i \in DOMAIN windows : WindowMinute(windows[i]) <= m

BankingDayNumber(d) == (3 + d) % 7 \notin {0, 6} /\ d \notin holidays

\* `effective` is `today` moved to the n-th banking day after it: same time of
\* day, a banking day, with exactly n banking days after today up to it
PlusBankingDays(today, effective, n) ==
    /\ effective.loc = today.loc
    /\ MinuteOfDay(effective) = MinuteOfDay(today)
    /\ Day(effective) > Day(today)
    /\ BankingDayNumber(Day(effective))
    /\ Cardinality({d \in (Day(today) + 1)..Day(effective) : BankingDayNumber(d)}) = n

EEDCalled == out.op = "calculateEffectiveEntryDate" /\ fp.Cutoffs.Windows # <<>>

\* C5: the four-case rule, on the clock calculateEffectiveEntryDate reads (the value
\* of base.NewTime): before the latest window the result is today (sameDay) or
\* today + 1 banking day; at or after it the result is today + 1 banking day
\* (sameDay) or today + 2 banking days, so never today's date for a same-day
\* transfer at or after the last cutoff.
C5_FourCaseRule ==
    EEDCalled =>
        LET today == UTC(out.now)
            before == MinuteOfDay(today) < LatestWindow(fp.Cutoffs.Windows)
        IN  /\ (before /\ out.sameDay) => out.effective = today
            /\ (before /\ ~out.sameDay) => PlusBankingDays(today, out.effective, 1)
            /\ (~before /\ out.sameDay) => PlusBankingDays(today, out.effective, 1)
            /\ (~before /\ ~out.sameDay) => PlusBankingDays(today, out.effective, 2)

\* C5 witness: a same-day call at exactly the last cutoff window, with two windows
\* configured, has returned.
C5_Witness ==
    /\ EEDCalled
    /\ out.sameDay
    /\ Len(fp.Cutoffs.Windows) = 2
    /\ MinuteOfDay(UTC(out.now)) = LatestWindow(fp.Cutoffs.Windows)
    /\ Day(out.effective) > Day(UTC(out.now))

\* C6 as claimed: the transfer is treated as after cutoff exactly when the local
\* time in the cutoff timezone is at or after the latest window.
C6_CutoffInCutoffTimezone ==
    EEDCalled =>
        (out.afterCutoffs <=>
            MinuteOfDay(In(out.now, fp.Cutoffs.Timezone)) >= LatestWindow(fp.Cutoffs.Windows))

\* C7 as claimed: for two instants t1 < t2 of the same calendar day (of the cutoff
\* timezone) and non-same-day transfers, the effective entry date at t1 is not
\* after the one at t2.
C7_MonotonicInAcceptanceTime ==
    (EEDCalled /\ ~out.sameDay) =>
        \A t1 \in Instants :
            (/\ t1.unix < out.now.unix
             /\ Day(In(t1, fp.Cutoffs.Timezone)) = Day(In(out.now, fp.Cutoffs.Timezone)))
            => calculateEffectiveEntryDate(fp, t1, FALSE).unix <= out.effective.unix

(***************************************************************************)
(* Claims about Originate, checked under SpecOriginate                     *)
(***************************************************************************)
OriginateCalled == out.op = "Originate"

AtODFI(endpoint) == endpoint.RoutingNumber = fp.RoutingNumber

\* C8: a transfer whose source and destination routing numbers are equal is
\* rejected with the "between two accounts within" error and no files, whatever
\* the configured routing number, the customer status and the amount, and before
\* the third-party and debit checks.
C8_EndpointRejected ==
    (OriginateCalled /\ out.src.RoutingNumber = out.dst.RoutingNumber) =>
        /\ out.result.files = 0
        /\ out.result.err = EndpointRejected

\* C8 witness: with no ODFI routing number configured, a transfer of a nil
\* *client.Transfer between two equal routing numbers has been rejected.
C8_Witness ==
    /\ OriginateCalled
    /\ fp.RoutingNumber = ""
    /\ out.xfer.nil
    /\ out.src.RoutingNumber = out.dst.RoutingNumber
    /\ out.src.RoutingNumber = ODFIRoutingNumber
    /\ out.result.err = EndpointRejected
    /\ out.result.files = 0

\* C9: a transfer neither of whose routing numbers is the ODFI's is rejected, with
\* no files and the third-party error (the endpoint error when the two are equal);
\* and whenever Originate gets past its routing checks, exactly one endpoint is at
\* the ODFI.
C9_ThirdPartyRejected ==
    OriginateCalled =>
        /\ (~AtODFI(out.src) /\ ~AtODFI(out.dst)) =>
              /\ out.result.files = 0
              /\ out.result.err =
                    IF out.src.RoutingNumber = out.dst.RoutingNumber
                    THEN EndpointRejected
                    ELSE ThirdPartyRejected
        /\ out.result.err \notin {EndpointRejected, ThirdPartyRejected} =>
              (AtODFI(out.src) /\ ~AtODFI(out.dst)) \/ (~AtODFI(out.src) /\ AtODFI(out.dst))

\* C9 witness: with no ODFI routing number configured, a transfer between two
\* different non-empty routing numbers has been rejected as third-party.
C9_Witness ==
    /\ OriginateCalled
    /\ fp.RoutingNumber = ""
    /\ out.src.RoutingNumber # out.dst.RoutingNumber
    /\ out.result.err = ThirdPartyRejected
    /\ out.result.files = 0

Verified(status) == status \in {"verified", "VERIFIED"}

\* C10: Originate fails with the debit error exactly when the routing checks pass,
\* the destination is at the ODFI and the source customer's status is not
\* VERIFIED; a transfer whose source is at the ODFI is never refused on status.
C10_DebitNotAllowed ==
    OriginateCalled =>
        /\ out.result.err = DebitNotAllowed <=>
              /\ out.src.RoutingNumber # out.dst.RoutingNumber
              /\ AtODFI(out.dst)
              /\ ~Verified(out.src.Status)
        /\ AtODFI(out.src) => out.result.err # DebitNotAllowed

\* C10 witness: a transfer into the ODFI (routing number 987654320) from a
\* RECEIVE_ONLY customer has been refused with the debit error.
C10_Witness ==
    /\ OriginateCalled
    /\ fp.RoutingNumber = ODFIRoutingNumber
    /\ AtODFI(out.dst)
    /\ out.src.RoutingNumber = ""
    /\ out.src.Status = "receive_only"
    /\ out.result.err = DebitNotAllowed
    /\ out.result.files = 0

\* the call got as far as building achx.Options
OptionsBuilt == OriginateCalled /\ out.result.err \in {Nil, BuildFailed}

\* C11: the balancing entry is requested if and only if balanceEntries is
\* configured and the amount is at least 50: 50 and 153 are balanced when it is
\* configured, 25 and 49 never, and nothing when it is not configured.
C11_BalanceIffConfiguredAndAtLeast50 ==
    OptionsBuilt =>
        /\ out.xfer.Amount \in {25, 49} => ~out.result.opts.BalanceEntries
        /\ ~fp.FileConfig.BalanceEntries => ~out.result.opts.BalanceEntries
        /\ (fp.FileConfig.BalanceEntries /\ out.xfer.Amount \in {50, 153})
              => out.result.opts.BalanceEntries

\* C11 witness: with balanceEntries configured a transfer of exactly 50 has been
\* built with the balancing entry requested.
C11_Witness ==
    /\ OptionsBuilt
    /\ fp.FileConfig.BalanceEntries
    /\ out.xfer.Amount = 50
    /\ out.result.err = Nil
    /\ out.result.opts.BalanceEntries

\* C12: a call of Originate that returns, returns exactly one file and no error,
\* or no files and an error.
C12_OneFileOrError ==
    (OriginateCalled /\ out.result.err # NilDereference) =>
        \/ out.result.files = 1 /\ out.result.err = Nil
        \/ out.result.files = 0 /\ out.result.err # Nil

\* C12 witness: achx.ConstructFile has failed for a transfer that passed every
\* check, and Originate has returned no files and the wrapped error.
C12_Witness ==
    /\ OriginateCalled
    /\ out.result.err = BuildFailed
    /\ out.result.files = 0

(***************************************************************************)
(* More claims about the repository, checked under Spec                    *)
(***************************************************************************)
\* C14: the table of trace numbers never holds a (transfer_id, trace_number) pair
\* twice, and a pair that is in the table is still in it, once, after every step
\* of every operation.
C14_TraceNumbersUniqueAndStable ==
    /\ [](\A row \in BagToSet(transfer_trace_numbers) :
              CopiesIn(row, transfer_trace_numbers) = 1)
    /\ [][ \A row \in BagToSet(transfer_trace_numbers) :
              CopiesIn(row, transfer_trace_numbers') = 1 ]_vars

\* C14 witness: a saveTraceNumbers call has been refused by the unique index, and
\* the pair stored before it is still there while its transfer is soft-deleted.
C14_Witness ==
    /\ ret = [op |-> "saveTraceNumbers", err |-> ErrDuplicateKey]
    /\ \E transferID \in DOMAIN transfers :
          /\ transfers[transferID].deleted_at # NullTime
          /\ CopiesIn(<<transferID, "T1">>, transfer_trace_numbers) = 1

(***************************************************************************)
(* Claims about the reads of the repository, checked under SpecReads       *)
(***************************************************************************)
\* the row of transferID has the amount and the trace number, is PROCESSED and
\* is not soft-deleted
Qualifies(transferID, amount, traceNumber) ==
    /\ transferID \in DOMAIN transfers
    /\ transfers[transferID].amount_value = amount
    /\ <<transferID, traceNumber>> \in BagToSet(transfer_trace_numbers)
    /\ transfers[transferID].status = PROCESSED
    /\ transfers[transferID].deleted_at = NullTime

\* C13: LookupTransferFromReturn returns at most one transfer, and only one whose
\* amount equals the amount asked for, one of whose trace numbers is the trace
\* number asked for, whose status is PROCESSED and which is not soft-deleted; when
\* no transfer qualifies it returns no transfer; and it modifies neither table.
C13_LookupOnlyQualifying ==
    [][ \A amount \in LookupAmounts, traceNumber \in LookupTraceNumbers,
           effectiveEntryDate \in ReturnDays :
            LookupTransferFromReturn(amount, traceNumber, effectiveEntryDate) =>
                /\ transfers' = transfers
                /\ transfer_trace_numbers' = transfer_trace_numbers
                /\ Cardinality(ret'.result) <= 1
                /\ ret'.result = {} <=> ret'.err # Nil
                /\ \A t \in ret'.result :
                      /\ Qualifies(t.TransferID, amount, traceNumber)
                      /\ t.Amount = amount
                      /\ traceNumber \in t.TraceNumbers
                      /\ t.Status = PROCESSED
                /\ (\A transferID \in TransferIDs : ~Qualifies(transferID, amount, traceNumber))
                      => ret'.result = {}
      ]_vars

\* C13 witness: LookupTransferFromReturn has returned a PROCESSED transfer while
\* another live transfer with the same amount and trace number, not PROCESSED, is
\* stored.
C13_Witness ==
    /\ ret.op = "LookupTransferFromReturn"
    /\ ret.err = Nil
    /\ \E t \in ret.result :
          /\ t.Status = PROCESSED
          /\ \E other \in DOMAIN transfers \ {t.TransferID} :
                /\ transfers[other].amount_value = t.Amount
                /\ transfers[other].status = RETURNED
                /\ transfers[other].deleted_at = NullTime
                /\ getTraceNumbers(other) = t.TraceNumbers

ReadOps == {"GetTransfer", "getTransfers", "LookupTransferFromReturn"}

\* C15: no step removes a row of transfers; the update of deleteUserTransfer
\* keeps the PENDING row it addresses and sets its deleted_at; a row whose
\* deleted_at is set is changed by no step (UpdateTransferStatus and
\* SaveReturnCode included); and GetTransfer, getTransfers and
\* LookupTransferFromReturn return no transfer whose deleted_at is set.
C15_SoftDelete ==
    [][ /\ DOMAIN transfers \subseteq DOMAIN transfers'
        /\ (deleteUserTransferExec /\ LiveFor(tx.transferID, tx.orgID)
               /\ transfers[tx.transferID].status = PENDING)
              => transfers'[tx.transferID].deleted_at = clock
        /\ \A transferID \in DOMAIN transfers :
              transfers[transferID].deleted_at # NullTime =>
                  transfers'[transferID] = transfers[transferID]
        /\ ret'.op \in ReadOps =>
              \A t \in ret'.result :
                  /\ transfers[t.TransferID].deleted_at = NullTime
                  /\ transfers'[t.TransferID].deleted_at = NullTime
      ]_vars

\* C15 witness: GetTransfer has found no row although both transfers are stored,
\* both soft-deleted, one of them with a trace number.
C15_Witness ==
    /\ ret = [op |-> "GetTransfer", err |-> ErrNoRows, result |-> {}]
    /\ DOMAIN transfers = TransferIDs
    /\ \A transferID \in TransferIDs : transfers[transferID].deleted_at # NullTime
    /\ \E transferID \in TransferIDs : getTraceNumbers(transferID) # {}

(***************************************************************************)
(* Claims about the server process, checked under SpecShutdown             *)
(***************************************************************************)
Closed(name) == \E i \in DOMAIN server.closed : server.closed[i] = name

\* C16 as claimed: the database handle of the transfer repository is never closed
\* while the aggregator, the upload agent or the bus subscription is running, and
\* the upload agent is never closed while the aggregator or the bus subscription
\* is running.
C16_RepositoryClosedLast ==
    /\ (Closed("transfersRepo") \/ Closed("db")) =>
          server.running \cap {"xferAgg", "agent", "transferSubscription"} = {}
    /\ Closed("agent") =>
          server.running \cap {"xferAgg", "transferSubscription"} = {}

(***************************************************************************)
(* More claims about the repository under its callers, checked under       *)
(* SpecPipeline                                                            *)
(***************************************************************************)
AllowedTransitions ==
    {<<PENDING, REVIEWABLE>>, <<REVIEWABLE, PENDING>>,
     <<PENDING, CANCELED>>, <<REVIEWABLE, CANCELED>>}

FlushRead == agg.files \cup agg.failed

\* the step that completes a flush: its commit, or its rollback
FlushCompletes == FlushCommit \/ FlushUpload(FALSE)

\* statuses a transfer the flush has not written can have: PENDING, or what an
\* admin made of it while the flush ran
Unflushed == {PENDING, REVIEWABLE, CANCELED}

TablesUnchanged ==
    /\ transfers' = transfers
    /\ transfer_trace_numbers' = transfer_trace_numbers

HasSeq(tmpl) == \E i \in 1..Len(tmpl) : tmpl[i] = "seq"

DayOf(instant) == instant \div HoursPerDay

\* the live PROCESSED transfers with the amount and the trace number that were
\* created on a calendar day from 5 before to 5 after the day of the date
QualifyingWithin5Days(amount, traceNumber, effectiveEntryDate) ==
    {transferID \in DOMAIN transfers :
        /\ Qualifies(transferID, amount, traceNumber)
        /\ DayOf(transfers[transferID].created_at) >= DayOf(effectiveEntryDate) - 5
        /\ DayOf(transfers[transferID].created_at) <= DayOf(effectiveEntryDate) + 5}

\* C21: LookupTransferFromReturn returns a transfer exactly when a qualifying
\* transfer was created at an instant of the calendar days D-5 to D+5 of the
\* return's effective entry date D, first instant of D-5 and last instant of D+5
\* included, and the transfer it returns is one of these.
C21_WindowOfFiveCalendarDays ==
    [][ \A amount \in Amounts, traceNumber \in TraceNumbers,
           effectiveEntryDate \in WindowReturnDates :
            LookupTransferFromReturn(amount, traceNumber, effectiveEntryDate) =>
                /\ ret'.result # {} <=>
                      QualifyingWithin5Days(amount, traceNumber, effectiveEntryDate) # {}
                /\ \A t \in ret'.result :
                      t.TransferID \in
                          QualifyingWithin5Days(amount, traceNumber, effectiveEntryDate)
      ]_vars

(***************************************************************************)
(* More claims about the effective entry date, checked under SpecEED       *)
(***************************************************************************)
\* the lists of windows that hold the same windows in another order
Reorderings(windows) ==
    {other \in WindowLists :
        /\ Len(other) = Len(windows)
        /\ {other[i] : i \in DOMAIN other} = {windows[i] : i \in DOMAIN windows}}

\* C22: with windows configured, afterCutoffWindows is true exactly when the
\* HH:MM of the instant it is given is at or after the latest window, whatever
\* the order of the list, and gives the same for every permutation of the list;
\* with no window configured it is false; and the call leaves the configured
\* list as it is.
C22_LatestWindowOnly ==
    /\ [](out.op = "calculateEffectiveEntryDate" =>
            LET when == When(fp, out.now)
                windows == fp.Cutoffs.Windows
            IN  /\ windows = <<>> => ~out.afterCutoffs
                /\ windows # <<>> =>
                      (out.afterCutoffs <=> MinuteOfDay(when) >= LatestWindow(windows))
                /\ \A other \in Reorderings(windows) :
                      afterCutoffWindows([fp.Cutoffs EXCEPT !.Windows = other], when)
                          = out.afterCutoffs)
    /\ [][(\E sameDay \in BOOLEAN : EffectiveEntryDate(sameDay)) => fp' = fp]_vars

\* C22 witness: a call at exactly the latest window has answered "after the
\* cutoff" with the latest window first in the configured list of two.
C22_Witness ==
    /\ out.op = "calculateEffectiveEntryDate"
    /\ fp.Cutoffs.Windows = <<W1420, W0930>>
    /\ MinuteOfDay(When(fp, out.now)) = LatestWindow(fp.Cutoffs.Windows)
    /\ out.afterCutoffs

(***************************************************************************)
(* Claims about deleteUserTransfer and the other writers, checked under    *)
(* Spec                                                                    *)
(***************************************************************************)
\* a soft-deleted transfer has status PENDING
DeletedArePending ==
    \A transferID \in DOMAIN transfers :
        transfers[transferID].deleted_at # NullTime => transfers[transferID].status = PENDING

\* C23: a soft-deleted transfer has status PENDING in every state, under every
\* interleaving of deleteUserTransfer with UpdateTransferStatus; and when
\* deleteUserTransfer returns nil for a live transfer of the caller's
\* organization, the transfer is soft-deleted.
C23_DeleteRacesStatusUpdate ==
    /\ []DeletedArePending
    /\ [][ (deleteUserTransferExec /\ ret'.err = Nil /\ LiveFor(tx.transferID, tx.orgID)) =>
                transfers'[tx.transferID].deleted_at # NullTime ]_vars

(***************************************************************************)
(* Claims about returns, checked under SpecPipeline                        *)
(***************************************************************************)
\* the live transfers with the amount and the trace number of a return entry,
\* created in the days the lookup looks at
Carriers(amount, traceNumber, effectiveEntryDate) ==
    LookupRows_AnyStatus(amount, traceNumber, effectiveEntryDate)

InsertRefused(transferID, traceNumbers) ==
    \/ \E i \in DOMAIN traceNumbers :
            BagIn(<<transferID, traceNumbers[i]>>, transfer_trace_numbers)
    \/ \E i, j \in DOMAIN traceNumbers : i # j /\ traceNumbers[i] = traceNumbers[j]

\* C25: saveTraceNumbers returns an error exactly when an insert of its list is
\* refused, and then the table is as it was before the call; when it returns nil
\* the table holds the rows it held and one new row for every trace number of the
\* list.
C25_SaveTraceNumbersAllOrNothing ==
    [][ \A transferID \in TransferIDs, traceNumbers \in TraceLists :
            saveTraceNumbers(transferID, traceNumbers) =>
                /\ ret'.err # Nil <=> InsertRefused(transferID, traceNumbers)
                /\ ret'.err # Nil => transfer_trace_numbers' = transfer_trace_numbers
                /\ ret'.err = Nil =>
                      transfer_trace_numbers' =
                          transfer_trace_numbers (+)
                              SetToBag({<<transferID, traceNumbers[i]>> : i \in DOMAIN traceNumbers})
      ]_vars

\* C25 witness: saveTraceNumbers has returned an error on an empty table, which it
\* does only for a list with a trace number twice, after the first of them was
\* inserted; the table is empty.
C25_Witness ==
    /\ ret.op = "saveTraceNumbers"
    /\ ret.err = ErrDuplicateKey
    /\ transfer_trace_numbers = EmptyBag
    /\ DOMAIN transfers # {}

\* there is nothing to delete for the organization under the ID: no row has the
\* ID, or the row is another organization's, or it is soft-deleted already
NothingToDelete(orgID, transferID) ==
    \/ transferID \notin DOMAIN transfers
    \/ transfers[transferID].organization # orgID
    \/ transfers[transferID].deleted_at # NullTime

\* C26: deleteUserTransfer for an ID under which the organization has nothing to
\* delete returns nil and leaves both tables as they are; so does a second
\* delete of a transfer that was deleted.
C26_DeleteNothingIsNoOp ==
    [][ \A orgID \in Organizations, transferID \in TransferIDs :
            (deleteUserTransferSelect(orgID, transferID)
                /\ NothingToDelete(orgID, transferID)) =>
                    /\ ret' = [op |-> "deleteUserTransfer", err |-> Nil]
                    /\ tx' = NoTx
                    /\ transfers' = transfers
                    /\ transfer_trace_numbers' = transfer_trace_numbers
      ]_vars

\* C26 witness: deleteUserTransfer has returned nil while no transfer is stored:
\* the ID it was called for does not exist, and the tables are still empty.
C26_Witness ==
    /\ ret = [op |-> "deleteUserTransfer", err |-> Nil]
    /\ tx = NoTx
    /\ DOMAIN transfers = {}
    /\ transfer_trace_numbers = EmptyBag

(***************************************************************************)
(* A claim about the day of the effective entry date, checked under SpecEED *)
(***************************************************************************)
EEDReturned == out.op = "calculateEffectiveEntryDate"

\* C27 as stated: the effective entry date calculateEffectiveEntryDate returns is
\* a banking day, whatever the instant, the cutoff configuration and sameDay.
C27_AlwaysBankingDay ==
    EEDReturned => BankingDayNumber(Day(out.effective))

\* C27 amended: the effective entry date is a banking day after today whenever
\* the call is at or after the last cutoff or the transfer is not same-day; for a
\* same-day transfer before the last cutoff (or with no window configured) it is
\* today, weekend and holiday included.
C27_BankingDayUnlessSameDayToday ==
    EEDReturned =>
        /\ (out.afterCutoffs \/ ~out.sameDay) =>
              /\ BankingDayNumber(Day(out.effective))
              /\ Day(out.effective) > Day(When(fp, out.now))
        /\ (~out.afterCutoffs /\ out.sameDay) => out.effective = When(fp, out.now)

\* C27 witness: a call on a Saturday for a transfer that is not same-day has
\* returned a date on a banking day, with a holiday configured.
C27_Witness ==
    /\ EEDReturned
    /\ ~out.sameDay
    /\ Weekday(When(fp, out.now)) = 6
    /\ holidays # {}
    /\ BankingDayNumber(Day(out.effective))

OwnTransfers(orgID, startDate, endDate, status) ==
    {[TransferID |-> id,
      Amount |-> transfers[id].amount_value,
      Status |-> transfers[id].status,
      ReturnCode |-> transfers[id].return_code,
      ProcessedAt |-> transfers[id].processed_at,
      Created |-> transfers[id].created_at,
      TraceNumbers |-> getTraceNumbers(id)] :
        id \in {i \in DOMAIN transfers :
                    /\ transfers[i].organization = orgID
                    /\ transfers[i].deleted_at = NullTime
                    /\ transfers[i].created_at >= startDate
                    /\ transfers[i].created_at <= endDate
                    /\ status # "" => transfers[i].status = status}}

\* C29: getUserTransfer(id, orgID) returns no transfer of another organization;
\* getTransfers(orgID, ...) returns the organization's own transfers, read from
\* its own rows only, and none of another organization; deleteUserTransfer(orgID,
\* id) for another organization's transfer returns as for an ID that does not
\* exist, and its update changes no row of another organization.
C29_OrganizationIsolation ==
    /\ [](\A transferID \in TransferIDs, orgID \in Organizations :
            \A t \in getUserTransfer(transferID, orgID) :
                /\ t.TransferID = transferID
                /\ transfers[transferID].organization = orgID)
    /\ [][ /\ \A orgID \in Organizations, startDate \in {0, HoursPerDay},
                 endDate \in {0, HoursPerDay}, status \in StatusFilters :
                 getTransfers(orgID, startDate, endDate, status) =>
                    ret'.result = OwnTransfers(orgID, startDate, endDate, status)
           /\ \A orgID \in Organizations, transferID \in TransferIDs :
                 (/\ deleteUserTransferSelect(orgID, transferID)
                  /\ transferID \in DOMAIN transfers
                  /\ transfers[transferID].organization # orgID) =>
                        /\ ret' = [op |-> "deleteUserTransfer", err |-> Nil]
                        /\ tx' = NoTx
                        /\ transfers' = transfers
           /\ deleteUserTransferExec =>
                 \A transferID \in DOMAIN transfers :
                    transfers[transferID].organization # tx.orgID =>
                        transfers'[transferID] = transfers[transferID]
         ]_vars

\* C29 witness: getTransfers has returned a transfer of its organization while a
\* live transfer of the other organization with the same status and date is
\* stored.
C29_Witness ==
    /\ ret.op = "getTransfers"
    /\ ret.err = Nil
    /\ \E t \in ret.result :
          \E other \in DOMAIN transfers :
              /\ transfers[other].organization # transfers[t.TransferID].organization
              /\ transfers[other].deleted_at = NullTime
              /\ transfers[other].status = t.Status
              /\ transfers[other].created_at = t.Created

(***************************************************************************)
(* A claim about what each writer leaves alone, checked under Spec         *)
(***************************************************************************)
\* no row of transfers is added or removed, and every row but the addressed one
\* is as it was
OtherRowsKept(transferID) ==
    /\ DOMAIN transfers' = DOMAIN transfers
    /\ \A other \in DOMAIN transfers \ {transferID} : transfers'[other] = transfers[other]

\* C30: UpdateTransferStatus changes nothing but the status of the addressed
\* transfer, SaveReturnCode nothing but its return code, and saveTraceNumbers
\* nothing but the trace rows of the given transfer ID, to which it only adds;
\* none of them changes another transfer, and none adds a row to transfers, also
\* when no transfer has the ID.
C30_WritersChangeOnlyTheirField ==
    [][ /\ \A transferID \in TransferIDs, status \in TransferStatus :
              UpdateTransferStatus(transferID, status) =>
                  /\ transfer_trace_numbers' = transfer_trace_numbers
                  /\ OtherRowsKept(transferID)
                  /\ transferID \in DOMAIN transfers =>
                        transfers' = [transfers EXCEPT
                                        ![transferID].status = transfers'[transferID].status]
        /\ \A transferID \in TransferIDs, returnCode \in ReturnCodes :
              SaveReturnCode(transferID, returnCode) =>
                  /\ transfer_trace_numbers' = transfer_trace_numbers
                  /\ OtherRowsKept(transferID)
                  /\ transferID \in DOMAIN transfers =>
                        transfers' = [transfers EXCEPT
                                        ![transferID].return_code =
                                            transfers'[transferID].return_code]
        /\ \A transferID \in TransferIDs, traceNumbers \in TraceLists :
              saveTraceNumbers(transferID, traceNumbers) =>
                  /\ transfers' = transfers
                  /\ \A row \in BagToSet(transfer_trace_numbers) \cup
                                BagToSet(transfer_trace_numbers') :
                        /\ CopiesIn(row, transfer_trace_numbers')
                              >= CopiesIn(row, transfer_trace_numbers)
                        /\ row[1] # transferID =>
                              CopiesIn(row, transfer_trace_numbers')
                                  = CopiesIn(row, transfer_trace_numbers)
      ]_vars

\* C30 witness: a status update has returned while a RETURNED transfer with its
\* return code and trace numbers and a second transfer without either are stored.
C30_Witness ==
    /\ ret = [op |-> "UpdateTransferStatus", err |-> Nil]
    /\ \E transferID \in DOMAIN transfers :
          /\ transfers[transferID].status = RETURNED
          /\ transfers[transferID].return_code # NullCode
          /\ getTraceNumbers(transferID) # {}
          /\ \E other \in DOMAIN transfers \ {transferID} :
                /\ transfers[other].status = PENDING
                /\ transfers[other].return_code = NullCode
                /\ getTraceNumbers(other) = {}

====
